---- MODULE Spec2Model ----
(***************************************************************************)
(* The two scripts of the repository as state machines.                    *)
(*                                                                         *)
(* Spec        parse_commands of scripts/parse_meshcore_cli.py: one step   *)
(*             per iteration of its `while i < len(lines)` loop, over the  *)
(*             text of the lines themselves.  The regular expressions and  *)
(*             substring tests of the source are operators over strings,   *)
(*             so what a line matches is computed from its characters.     *)
(* FormatSpec  clean_response_format applied to a template and to its own  *)
(*             result.                                                     *)
(* MainSpec    main of the same script after parse_commands has returned:  *)
(*             generate_registry, the JSON file, the TypeScript file.      *)
(* PatchSpec   patches/mesh_cli_enhancements.py: main and the nine patches *)
(*             of patch_file over the text of the file, run repeatedly.    *)
(***************************************************************************)
EXTENDS Integers, Sequences, FiniteSets, TLC

VARIABLES
    lines,                \* cpp_source.split('\n')
    i,                    \* index of the line the loop is at (0-based, as in the source)
    commands,             \* the descriptors appended so far
    current_category,     \* None | "get" | "set"
    in_get_block,
    in_set_block,
    serial_only_context,
    pc,                   \* "scan" while the loop runs, "done" after `return commands`
    log                   \* history: one record per command-token match, in line order

vars == <<lines, i, commands, current_category, in_get_block, in_set_block,
          serial_only_context, pc, log>>

\* ------------------------------------------------------------------ bounds
MaxLines == 3     \* longest free-form input (every sequence over Vocab)
MaxPad == 15      \* most filler lines between a command token and what follows
MaxTail == 2      \* most reply/conversion lines after the filler
Window == 15      \* the lookahead: range(i, min(i + 15, len(lines)))
MaxFmt == 3       \* most pieces of a reply template given to clean_response_format
MaxCmds == 3      \* most descriptors given to generate_registry
MaxParts == 2     \* most parts of a file given to the patch script
MaxRuns == 2      \* invocations of the patch script on the same path

\* ----------------------------------------------------------------- strings
Min(a, b) == IF a <= b THEN a ELSE b

\* Optional[str]: None, or a string
None == [some |-> FALSE, val |-> ""]
Some(s) == [some |-> TRUE, val |-> s]
\* Python truthiness of an Optional[str]: None and "" are both false
Truthy(o) == o.some /\ o.val # ""

Char(s, p) == SubSeq(s, p, p)
\* \s of the re module and the characters str.strip() removes (within one line)
IsSpace(c) == c \in {" ", "\t", "\r", "\f"}
IsDigit(c) == c \in {"0", "1", "2", "3", "4", "5", "6", "7", "8", "9"}

\* s[p:].startswith(lit), p 1-based
StartsWithAt(s, p, lit) ==
    /\ p >= 1
    /\ p + Len(lit) - 1 <= Len(s)
    /\ SubSeq(s, p, p + Len(lit) - 1) = lit

\* `lit in s`
Contains(s, lit) == \E p \in 1..Len(s) : StartsWithAt(s, p, lit)

\* A literal at p: the position after it, 0 when it is not there (or p is 0)
Lit(s, p, lit) == IF p > 0 /\ StartsWithAt(s, p, lit) THEN p + Len(lit) ELSE 0

RECURSIVE SkipSpace(_, _)
SkipSpace(s, p) ==
    IF p <= Len(s) /\ IsSpace(Char(s, p)) THEN SkipSpace(s, p + 1) ELSE p

RECURSIVE SkipDigits(_, _)
SkipDigits(s, p) ==
    IF p <= Len(s) /\ IsDigit(Char(s, p)) THEN SkipDigits(s, p + 1) ELSE p

RECURSIVE SkipNotQuote(_, _)
SkipNotQuote(s, p) ==
    IF p <= Len(s) /\ Char(s, p) # "\"" THEN SkipNotQuote(s, p + 1) ELSE p

RECURSIVE LastNonSpace(_, _)
LastNonSpace(s, p) ==
    IF p >= 1 /\ IsSpace(Char(s, p)) THEN LastNonSpace(s, p - 1) ELSE p

\* str.strip()
Strip(s) ==
    LET a == SkipSpace(s, 1)
        b == LastNonSpace(s, Len(s))
    IN  IF a > b THEN "" ELSE SubSeq(s, a, b)

\* ---------------------------------------------------------------- patterns
\* A pattern is the sequence of the items of the regular expression:
\*   lit    the text v                       ws      \s*
\*   alt    (v[1]|v[2]|...), a group         quoted  [^"]+ (min 1) or [^"]* (min 0), a group
\*   digits \d+, a group
\* Each repetition is greedy and is followed by an item that none of the
\* characters it consumes can start, so that taking all of them is what re does.
PLit(v) == [t |-> "lit", v |-> <<v>>, min |-> 0]
PWs == [t |-> "ws", v |-> <<>>, min |-> 0]
PAlt(vs) == [t |-> "alt", v |-> vs, min |-> 0]
PQuoted(min) == [t |-> "quoted", v |-> <<>>, min |-> min]
PDigits == [t |-> "digits", v |-> <<>>, min |-> 1]

NoMatch == [ok |-> FALSE, groups |-> <<>>]

\* re.match of the items n.. of pat at position p of s; groups: the groups so far
RECURSIVE MatchFrom(_, _, _, _, _)
MatchFrom(pat, n, s, p, groups) ==
    IF n > Len(pat) THEN [ok |-> TRUE, groups |-> groups]
    ELSE
      CASE pat[n].t = "lit" ->
             IF StartsWithAt(s, p, pat[n].v[1])
             THEN MatchFrom(pat, n + 1, s, p + Len(pat[n].v[1]), groups)
             ELSE NoMatch
        [] pat[n].t = "ws" -> MatchFrom(pat, n + 1, s, SkipSpace(s, p), groups)
        [] pat[n].t = "alt" ->
             \* the alternatives in order, each with the rest of the pattern
             LET fits == {a \in 1..Len(pat[n].v) :
                            /\ StartsWithAt(s, p, pat[n].v[a])
                            /\ MatchFrom(pat, n + 1, s, p + Len(pat[n].v[a]),
                                         Append(groups, pat[n].v[a])).ok}
             IN  IF fits = {} THEN NoMatch
                 ELSE LET a == CHOOSE x \in fits : \A y \in fits : x <= y
                      IN  MatchFrom(pat, n + 1, s, p + Len(pat[n].v[a]),
                                    Append(groups, pat[n].v[a]))
        [] pat[n].t = "quoted" ->
             IF SkipNotQuote(s, p) - p >= pat[n].min
             THEN MatchFrom(pat, n + 1, s, SkipNotQuote(s, p),
                            Append(groups, SubSeq(s, p, SkipNotQuote(s, p) - 1)))
             ELSE NoMatch
        [] pat[n].t = "digits" ->
             IF SkipDigits(s, p) - p >= pat[n].min
             THEN MatchFrom(pat, n + 1, s, SkipDigits(s, p),
                            Append(groups, SubSeq(s, p, SkipDigits(s, p) - 1)))
             ELSE NoMatch

\* Search that takes the match at the rightmost position
Search_rightmost(pat, s) ==
    LET ps == {p \in 1..Len(s) : MatchFrom(pat, 1, s, p, <<>>).ok}
    IN  IF ps = {} THEN NoMatch
        ELSE MatchFrom(pat, 1, s, CHOOSE p \in ps : \A q \in ps : p >= q, <<>>)

\* pattern.search(s): the match at the leftmost position that has one
Search(pat, s) ==
    LET ps == {p \in 1..Len(s) : MatchFrom(pat, 1, s, p, <<>>).ok}
    IN  IF ps = {} THEN NoMatch
        ELSE MatchFrom(pat, 1, s, CHOOSE p \in ps : \A q \in ps : p <= q, <<>>)

\* cmd_pattern:  memcmp\s*\(\s*(command|config)\s*,\s*"([^"]+)"\s*,\s*(\d+)\s*\)
cmd_pattern ==
    <<PLit("memcmp"), PWs, PLit("("), PWs, PAlt(<<"command", "config">>), PWs,
      PLit(","), PWs, PLit("\""), PQuoted(1), PLit("\""), PWs, PLit(","), PWs,
      PDigits, PWs, PLit(")")>>

\* reply_pattern:  sprintf\s*\(\s*reply\s*,\s*"([^"]*)"
reply_pattern ==
    <<PLit("sprintf"), PWs, PLit("("), PWs, PLit("reply"), PWs, PLit(","), PWs,
      PLit("\""), PQuoted(0), PLit("\"")>>

\* strcpy_pattern:  strcpy\s*\(\s*reply\s*,\s*"([^"]*)"
strcpy_pattern ==
    <<PLit("strcpy"), PWs, PLit("("), PWs, PLit("reply"), PWs, PLit(","), PWs,
      PLit("\""), PQuoted(0), PLit("\"")>>

\* serial_only_pattern:  sender_timestamp\s*==\s*0
serial_only_pattern == <<PLit("sender_timestamp"), PWs, PLit("=="), PWs, PLit("0")>>

\* match = cmd_pattern.search(line): var_name = group(1), cmd_str = group(2),
\* group(3) the declared length (int() of it is never used)
CmdSearch(line) ==
    LET m == Search(cmd_pattern, line)
    IN  IF m.ok THEN [ok |-> TRUE, var |-> m.groups[1], str |-> m.groups[2],
                      len |-> m.groups[3]]
        ELSE [ok |-> FALSE, var |-> "", str |-> "", len |-> ""]

\* reply_pattern.search / strcpy_pattern.search: the literal is group(1)
ReplySearch(pat, line) ==
    LET m == Search(pat, line)
    IN  IF m.ok THEN [ok |-> TRUE, str |-> m.groups[1]] ELSE [ok |-> FALSE, str |-> ""]

\* serial_only_pattern.search(line)
SerialOnlySearch(line) == Search(serial_only_pattern, line).ok

\* ----------------------------------------------------- pure helper functions
\* classify_command with its last rule returning the name itself instead of 'other'
classify_command_passthrough(cmd) ==
    IF StartsWithAt(cmd, 1, "get ") THEN "get"
    ELSE IF StartsWithAt(cmd, 1, "set ") THEN "set"
    ELSE IF StartsWithAt(cmd, 1, "log") THEN "logging"
    ELSE IF StartsWithAt(cmd, 1, "gps") THEN "gps"
    ELSE IF StartsWithAt(cmd, 1, "sensor") THEN "sensor"
    ELSE IF StartsWithAt(cmd, 1, "bridge") THEN "bridge"
    ELSE IF StartsWithAt(cmd, 1, "stats") THEN "stats"
    ELSE IF cmd \in {"neighbors", "neighbor.remove"} THEN "neighbor"
    ELSE IF cmd \in {"reboot", "advert", "clock", "clock sync", "time", "ver",
                     "board", "erase", "start ota", "clear stats", "password"}
         THEN "system"
    ELSE IF cmd = "tempradio" THEN "radio"
    ELSE cmd

\* classify_command(cmd)
classify_command(cmd) ==
    IF StartsWithAt(cmd, 1, "get ") THEN "get"
    ELSE IF StartsWithAt(cmd, 1, "set ") THEN "set"
    ELSE IF StartsWithAt(cmd, 1, "log") THEN "logging"
    ELSE IF StartsWithAt(cmd, 1, "gps") THEN "gps"
    ELSE IF StartsWithAt(cmd, 1, "sensor") THEN "sensor"
    ELSE IF StartsWithAt(cmd, 1, "bridge") THEN "bridge"
    ELSE IF StartsWithAt(cmd, 1, "stats") THEN "stats"
    ELSE IF cmd \in {"neighbors", "neighbor.remove"} THEN "neighbor"
    ELSE IF cmd \in {"reboot", "advert", "clock", "clock sync", "time", "ver",
                     "board", "erase", "start ota", "clear stats", "password"}
         THEN "system"
    ELSE IF cmd = "tempradio" THEN "radio"
    ELSE "other"

\* is_serial_only_command(cmd)
is_serial_only_command(cmd) ==
    cmd \in {"get prv.key", "set prv.key", "erase", "log",
             "stats-packets", "stats-radio", "stats-core", "set freq"}

\* One optional character of a pattern (x?) at p
Opt(s, p, c) == IF p > 0 /\ StartsWithAt(s, p, c) THEN p + 1 ELSE p

\* SpecEnd with the leading % of every pattern optional
SpecEnd_percent_optional(kind, s, p) ==
    LET p1 == IF StartsWithAt(s, p, "%") THEN p + 1 ELSE p
    IN  CASE kind = "int" -> Lit(s, Opt(s, Opt(s, p1, "0"), "2"), "d")
          [] kind = "str" -> Lit(s, p1, "s")
          [] kind = "uint" -> Lit(s, p1, "u")
          [] kind = "float" ->
                LET taken == IF p1 > 0 /\ p1 <= Len(s) /\ Char(s, p1) # "\n"
                             THEN Lit(s, SkipDigits(s, p1 + 1), "f") ELSE 0
                    empty == IF p1 > 0 THEN Lit(s, SkipDigits(s, p1), "f") ELSE 0
                IN  IF taken > 0 THEN taken ELSE empty

\* Where the match of one of the four specifier patterns that starts at p ends
\* (exclusive), 0 when there is none.
\*   "int"   %0?2?d      "str"  %s      "uint"  %u      "float"  %.?\d*f
SpecEnd(kind, s, p) ==
    LET p1 == Lit(s, p, "%")
    IN  CASE kind = "int" -> Lit(s, Opt(s, Opt(s, p1, "0"), "2"), "d")
          [] kind = "str" -> Lit(s, p1, "s")
          [] kind = "uint" -> Lit(s, p1, "u")
          [] kind = "float" ->
                \* `.?` is greedy: first with one character (any but a newline)
                \* taken, and only if that fails with none
                LET taken == IF p1 > 0 /\ p1 <= Len(s) /\ Char(s, p1) # "\n"
                             THEN Lit(s, SkipDigits(s, p1 + 1), "f") ELSE 0
                    empty == IF p1 > 0 THEN Lit(s, SkipDigits(s, p1), "f") ELSE 0
                IN  IF taken > 0 THEN taken ELSE empty

\* re.sub(pattern, '{kind}', s) from position p on: leftmost matches, not overlapping
RECURSIVE SubFrom(_, _, _)
SubFrom(kind, s, p) ==
    IF p > Len(s) THEN ""
    ELSE LET e == SpecEnd(kind, s, p)
         IN  IF e > 0 THEN ("{" \o kind \o "}") \o SubFrom(kind, s, e)
             ELSE Char(s, p) \o SubFrom(kind, s, p + 1)

\* clean_response_format(fmt)
clean_response_format(fmt) ==
    IF ~Truthy(fmt) THEN None
    ELSE Some(SubFrom("float", SubFrom("uint", SubFrom("str",
                  SubFrom("int", fmt.val, 1), 1), 1), 1))

\* ------------------------------------------------------------------ inputs
\* Lines of the free-form inputs: region headers, command tokens on `command`
\* and on `config` (one line with two tokens and other spacing), serial-only
\* markers, branch lines, a conversion call.
Vocab ==
    { "// GET commands",
      "// SET commands",
      "// GET commands and SET commands",
      "  } else if (memcmp(command, \"get \", 4) == 0) {",
      "  } else if (memcmp(command, \"set \", 4) == 0) {",
      "    if (memcmp(config, \"af\", 2) == 0) {",
      "    } else if (memcmp(config, \"freq\", 4) == 0) {",
      "  } else if (memcmp(command, \"clock sync\", 10) == 0) {",
      "  } else if (memcmp(command, \"target \", 7) == 0) {",
      "    if (memcmp( config ,\"txdelay\" , 7 ) == 0 || memcmp(command, \"ver\", 3) == 0) {",
      "  if (memcmp(command, \"ver\", 3) == 0) {",
      "  if (sender_timestamp == 0) {",
      "  } else if (sender_timestamp == 0) {",
      "  } else if (sender_timestamp == 0 && memcmp(command, \"erase\", 5) == 0) {",
      "  } else {",
      "      _prefs->airtime_factor = atof(&config[3]);" }

\* String literals of the classification inputs: one at least per rule of
\* classify_command, names of the serial-only list, literals with spaces around.
Literals ==
    { "get af", "set af", "log", "log start", "gps", "sensor get", "bridge",
      "stats-core", "neighbors", "neighbor.remove", "reboot", "clock sync",
      "ver", "tempradio", "xyz", "ver ", " time", "prv.key", "freq", "af " }

TokenLine(var, lit) ==
    "  } else if (memcmp(" \o var \o ", \"" \o lit \o "\", 3) == 0) {"

Headers == { "// GET commands", "// SET commands", "" }

\* Lines that follow a command token in the lookahead inputs
WindowVocab ==
    { "    sprintf(reply, \"OK %d\", x);",
      "    strcpy(reply, \"\");",
      "    strcpy(reply, \"Err\"); sprintf(reply, \"> %s\", v);",
      "    strcpy(reply, \"OK\");",
      "    f = atof(a);",
      "    n = _atoi(b); StrHelper::strncpy(c, d, 8);",
      "    StrHelper::strncpy(name, v, 32);" }

HeadLine == "  if (memcmp(command, \"ver\", 3) == 0) {"
PadLine == ""
Pad(k) == [x \in 1..k |-> PadLine]

SeqsOver(S, lo, hi) == UNION {[1..k -> S] : k \in lo..hi}

FreeInputs == SeqsOver(Vocab, 1, MaxLines)
ClassifyInputs ==
    {<<h, TokenLine(v, l)>> : h \in Headers, v \in {"command", "config"}, l \in Literals}
WindowInputs ==
    {<<HeadLine>> \o Pad(k) \o t : k \in 0..MaxPad, t \in SeqsOver(WindowVocab, 0, MaxTail)}

Inputs == FreeInputs \cup ClassifyInputs \cup WindowInputs

\* ------------------------------------------------------- what a line holds
\* 'GET commands' in line or "memcmp(command, \"get \", 4)" in line
AnnouncesGet(line) ==
    Contains(line, "GET commands") \/ Contains(line, "memcmp(command, \"get \", 4)")

\* 'SET commands' in line or "memcmp(command, \"set \", 4)" in line
AnnouncesSet(line) ==
    Contains(line, "SET commands") \/ Contains(line, "memcmp(command, \"set \", 4)")

\* "} else if (memcmp(command" in line and "get " not in line
LeavesGet(line) == Contains(line, "} else if (memcmp(command") /\ ~Contains(line, "get ")

\* "} else if (memcmp(command" in line and "set " not in line
LeavesSet(line) == Contains(line, "} else if (memcmp(command") /\ ~Contains(line, "set ")

\* "Check for parameter extraction": the type one context line adds to params,
\* "" when it adds none (an if/elif chain: one entry per line at most)
ConversionType(context_line) ==
    IF Contains(context_line, "atof(") THEN "float"
    ELSE IF Contains(context_line, "atoi(") \/ Contains(context_line, "_atoi(") THEN "int"
    ELSE IF Contains(context_line, "strncpy(") \/ Contains(context_line, "StrHelper::strncpy(")
    THEN "string"
    ELSE ""

\* line.strip().startswith('} else')
IsBlockBoundary(line) == StartsWithAt(Strip(line), 1, "} else")

\* Every line an input can hold, and what the tests and searches of the loop
\* find in each (computed once per line text)
AllLines ==
    Vocab \cup WindowVocab \cup Headers \cup {HeadLine, PadLine}
          \cup {TokenLine(v, l) : v \in {"command", "config"}, l \in Literals}

LineFacts ==
    [l \in AllLines |->
        [serial_marker |-> SerialOnlySearch(l),
         get |-> AnnouncesGet(l),
         set |-> AnnouncesSet(l),
         leaves_get |-> LeavesGet(l),
         leaves_set |-> LeavesSet(l),
         match |-> CmdSearch(l),
         reply_match |-> ReplySearch(reply_pattern, l),
         strcpy_match |-> ReplySearch(strcpy_pattern, l),
         conversion |-> ConversionType(l),
         boundary |-> IsBlockBoundary(l)]]

\* ------------------------------------------------- the body of the scan loop
Line(k) == lines[k + 1]     \* lines[k], 0-based as in the source
Facts(k) == LineFacts[Line(k)]

\* The SET branch without its `in_get_block = False`
BlockUpdate_set_keeps_get(f, get, set, cat) ==
    IF f.get THEN [get |-> TRUE, set |-> FALSE, cat |-> Some("get")]
    ELSE IF f.set THEN [get |-> get, set |-> TRUE, cat |-> Some("set")]
    ELSE IF get /\ f.leaves_get THEN [get |-> FALSE, set |-> set, cat |-> None]
    ELSE IF set /\ f.leaves_set THEN [get |-> get, set |-> FALSE, cat |-> None]
    ELSE [get |-> get, set |-> set, cat |-> cat]

\* "Detect get/set blocks": the new (in_get_block, in_set_block, current_category)
\* after a line with facts f
BlockUpdate(f, get, set, cat) ==
    IF f.get THEN [get |-> TRUE, set |-> FALSE, cat |-> Some("get")]
    ELSE IF f.set THEN [get |-> FALSE, set |-> TRUE, cat |-> Some("set")]
    ELSE IF get /\ f.leaves_get THEN [get |-> FALSE, set |-> set, cat |-> None]
    ELSE IF set /\ f.leaves_set THEN [get |-> get, set |-> FALSE, cat |-> None]
    ELSE [get |-> get, set |-> set, cat |-> cat]

\* The name built from the literal as matched, without .strip()
FullCommand_unstripped(var_name, cmd_str, get, set) ==
    IF var_name = "config"
    THEN IF get THEN [full_cmd |-> "get " \o cmd_str, category |-> "get"]
         ELSE IF set THEN [full_cmd |-> "set " \o cmd_str, category |-> "set"]
         ELSE [full_cmd |-> cmd_str, category |-> "config"]
    ELSE [full_cmd |-> cmd_str, category |-> classify_command(cmd_str)]

\* "Build full command name": (full_cmd, category) of a match
FullCommand(var_name, cmd_str, get, set) ==
    IF var_name = "config"
    THEN IF get THEN [full_cmd |-> "get " \o Strip(cmd_str), category |-> "get"]
         ELSE IF set THEN [full_cmd |-> "set " \o Strip(cmd_str), category |-> "set"]
         ELSE [full_cmd |-> Strip(cmd_str), category |-> "config"]
    ELSE [full_cmd |-> Strip(cmd_str), category |-> classify_command(Strip(cmd_str))]

\* A lookahead one line too long: range(i, min(i + 15 + 1, len(lines)))
WindowStop_one_more(k, n) == Min(k + Window + 1, n)

\* range(i, min(i + 15, len(lines))): the first index past the lookahead
WindowStop(k, n) == Min(k + Window, n)

\* `if reply_match and not response_format`: may a match still be recorded?
MayRecord(response_format) == ~Truthy(response_format)

\* params after one context line
ParamsAfter(f, params) ==
    IF f.conversion = "" THEN params
    ELSE Append(params, [name |-> "value", type |-> f.conversion])

\* response_format after one context line: sprintf is tried before strcpy
FormatAfter(f, response_format) ==
    LET rf1 == IF f.reply_match.ok /\ MayRecord(response_format)
               THEN Some(f.reply_match.str) ELSE response_format
    IN  IF f.strcpy_match.ok /\ MayRecord(rf1) THEN Some(f.strcpy_match.str) ELSE rf1

\* `for j in range(i, min(i + 15, len(lines)))` from j on
RECURSIVE Lookahead(_, _, _, _)
Lookahead(j, stop, response_format, params) ==
    IF j >= stop THEN [response_format |-> response_format, params |-> params]
    ELSE Lookahead(j + 1, stop, FormatAfter(Facts(j), response_format),
                   ParamsAfter(Facts(j), params))

\* is_serial_only = serial_only_context or is_serial_only_command(full_cmd)
IsSerialOnly(context, full_cmd) == context \/ is_serial_only_command(full_cmd)

\* "has_param": ' ' in cmd_str or len(params) > 0
HasParam(cmd_str, params) == Contains(cmd_str, " ") \/ Len(params) > 0

\* The descriptor of match m on line k (description, a function of the name
\* alone, is left out)
Descriptor(k, m, get, set, context) ==
    LET fc == FullCommand(m.var, m.str, get, set)
        la == Lookahead(k, WindowStop(k, Len(lines)), None, <<>>)
    IN  [name |-> fc.full_cmd,
         category |-> fc.category,
         params |-> la.params,
         response_format |-> clean_response_format(la.response_format),
         serial_only |-> IsSerialOnly(context, fc.full_cmd),
         has_param |-> HasParam(m.str, la.params)]

\* A duplicate test that looks at the last descriptor only
IsNew_last_only(cmds, full_cmd) == Len(cmds) = 0 \/ cmds[Len(cmds)].name # full_cmd

\* "Don't add duplicates": not any(c['name'] == full_cmd for c in commands)
IsNew(cmds, full_cmd) == ~\E c \in 1..Len(cmds) : cmds[c].name = full_cmd

\* ------------------------------------------- the other entry points' state
VARIABLES
    fmt,                  \* clean_response_format: the argument (Optional[str])
    once,                 \* clean_response_format(fmt)
    twice,                \* clean_response_format(clean_response_format(fmt))
    fpc                   \* "start", "once" after the first call, "twice" after the second

format_vars == <<fmt, once, twice, fpc>>

VARIABLES
    parsed,               \* main: the list parse_commands returned, as returned (history)
    output,               \* args.output
    typescript,           \* args.typescript
    ts_output,            \* the path handed to generate_typescript ("" before)
    registry,             \* the document generate_registry returned
    files,                \* the files written: path -> what was written last
    mpc                   \* "parsed", "registry", "json", "ts", "exit"

main_vars == <<parsed, output, typescript, ts_output, registry, files, mpc>>

VARIABLES
    has_arg,              \* patch script: len(sys.argv) >= 2
    disk,                 \* the file at the path: None when it does not exist
    writes,               \* how often the file was written
    content,
    original,
    patches_applied,
    edits,                \* history: the patches of this run that changed the text
    outcome,              \* what was printed: "usage", "not_found", "patched", "no_changes"
    exit_status,          \* the process exit status, NoStatus while it runs
    runs,                 \* history: one record per finished invocation
    ppc                   \* "main", "patch1" .. "patch9", "write", "exit"

patch_vars == <<has_arg, disk, writes, content, original, patches_applied, edits,
                outcome, exit_status, runs, ppc>>

\* clean_response_format is not running
FormatIdle == fmt = None /\ once = None /\ twice = None /\ fpc = "idle"

\* The document before generate_registry has run
NoRegistry ==
    [total_commands |-> 0, categories |-> <<>>, commands |-> <<>>,
     commands_by_category |-> <<>>]

\* main is not running
MainIdle ==
    /\ parsed = <<>>
    /\ output = ""
    /\ typescript = FALSE
    /\ ts_output = ""
    /\ registry = NoRegistry
    /\ files = <<>>
    /\ mpc = "idle"

\* no exit status: the process has not exited
NoStatus == -1

\* the patch script is not running
PatchIdle ==
    /\ has_arg = FALSE
    /\ disk = None
    /\ writes = 0
    /\ content = ""
    /\ original = ""
    /\ patches_applied = <<>>
    /\ edits = <<>>
    /\ outcome = ""
    /\ exit_status = NoStatus
    /\ runs = <<>>
    /\ ppc = "idle"

\* what parse_commands leaves alone
other_vars == <<format_vars, main_vars, patch_vars>>

\* ----------------------------------------------------------------- actions
Init ==
    /\ lines \in Inputs
    /\ i = 0
    /\ commands = <<>>
    /\ current_category = None
    /\ in_get_block = FALSE
    /\ in_set_block = FALSE
    /\ serial_only_context = FALSE
    /\ pc = "scan"
    /\ log = <<>>
    /\ FormatIdle
    /\ MainIdle
    /\ PatchIdle

\* One iteration of `while i < len(lines)`
ScanLine ==
    /\ pc = "scan"
    /\ i < Len(lines)
    /\ LET f == Facts(i)
           context == serial_only_context \/ f.serial_marker
           blk == BlockUpdate(f, in_get_block, in_set_block, current_category)
           match == f.match
           d == Descriptor(i, match, blk.get, blk.set, context)
       IN  /\ in_get_block' = blk.get
           /\ in_set_block' = blk.set
           /\ current_category' = blk.cat
           /\ commands' = IF match.ok /\ IsNew(commands, d.name)
                          THEN Append(commands, d) ELSE commands
           /\ log' = IF match.ok
                     THEN Append(log, [line |-> i, var |-> match.var, str |-> match.str,
                                       get |-> blk.get, set |-> blk.set,
                                       context |-> context, desc |-> d,
                                       added |-> IsNew(commands, d.name)])
                     ELSE log
           /\ serial_only_context' = IF f.boundary THEN FALSE ELSE context
    /\ i' = i + 1
    /\ UNCHANGED <<lines, pc, other_vars>>

\* `return commands` once the loop condition fails
Return ==
    /\ pc = "scan"
    /\ i >= Len(lines)
    /\ pc' = "done"
    /\ UNCHANGED <<lines, i, commands, current_category, in_get_block, in_set_block,
                   serial_only_context, log, other_vars>>

Next == ScanLine \/ Return

Spec == Init /\ [][Next]_<<vars, other_vars>>

\* parse_commands is not running
ParseIdle ==
    /\ lines = <<>>
    /\ i = 0
    /\ commands = <<>>
    /\ current_category = None
    /\ in_get_block = FALSE
    /\ in_set_block = FALSE
    /\ serial_only_context = FALSE
    /\ pc = "idle"
    /\ log = <<>>

\* ------------------------------------------------ clean_response_format alone
\* Pieces of reply templates: the characters the four patterns look at, printf
\* specifiers, the four placeholders, other text.
FormatPieces ==
    { "%", "d", "s", "u", "f", ".", "2", "x", "%.2f", "%02d", "%s",
      "{int}", "{str}", "{uint}", "{float}" }

RECURSIVE Join(_)
Join(pieces) == IF pieces = <<>> THEN "" ELSE Head(pieces) \o Join(Tail(pieces))

\* the arguments: None, and every template of at most MaxFmt pieces ("" too)
FormatInputs == {None} \cup {Some(Join(q)) : q \in SeqsOver(FormatPieces, 0, MaxFmt)}

FormatInit ==
    /\ fmt \in FormatInputs
    /\ once = None
    /\ twice = None
    /\ fpc = "start"
    /\ ParseIdle
    /\ MainIdle
    /\ PatchIdle

\* once = clean_response_format(fmt)
CleanOnce ==
    /\ fpc = "start"
    /\ once' = clean_response_format(fmt)
    /\ fpc' = "once"
    /\ UNCHANGED <<fmt, twice, vars, main_vars, patch_vars>>

\* twice = clean_response_format(once)
CleanTwice ==
    /\ fpc = "once"
    /\ twice' = clean_response_format(once)
    /\ fpc' = "twice"
    /\ UNCHANGED <<fmt, once, vars, main_vars, patch_vars>>

FormatNext == CleanOnce \/ CleanTwice

FormatSpec == FormatInit /\ [][FormatNext]_<<vars, other_vars>>

\* ------------------------------------------------- generate_registry and main
\* str.replace(old, new): every occurrence, leftmost first, not overlapping
RECURSIVE ReplaceAll(_, _, _)
ReplaceAll(s, old, new) ==
    LET ps == {p \in 1..(Len(s) - Len(old) + 1) : StartsWithAt(s, p, old)}
    IN  IF ps = {} THEN s
        ELSE LET p == CHOOSE x \in ps : \A y \in ps : x <= y
             IN  SubSeq(s, 1, p - 1) \o new
                   \o ReplaceAll(SubSeq(s, p + Len(old), Len(s)), old, new)

\* The characters of names and categories in code point order: Python compares
\* strings character by character by code point, a proper prefix first
CodeOrder == " -.0123456789_abcdefghijklmnopqrstuvwxyz"
Code(c) == CHOOSE p \in 1..Len(CodeOrder) : Char(CodeOrder, p) = c

RECURSIVE StrLess(_, _)
StrLess(a, b) ==
    IF b = "" THEN FALSE
    ELSE IF a = "" THEN TRUE
    ELSE IF Char(a, 1) = Char(b, 1)
         THEN StrLess(SubSeq(a, 2, Len(a)), SubSeq(b, 2, Len(b)))
         ELSE Code(Char(a, 1)) < Code(Char(b, 1))

\* A sort key that looks at the name only
KeyLess_name_only(c, d) == StrLess(c.name, d.name)

\* key=lambda c: (c['category'], c['name']), compared as tuples
KeyLess(c, d) ==
    IF c.category = d.category THEN StrLess(c.name, d.name)
    ELSE StrLess(c.category, d.category)

\* x put into a sorted list after every element that is not greater (stable)
RECURSIVE InsertSorted(_, _)
InsertSorted(sorted, x) ==
    IF sorted = <<>> THEN <<x>>
    ELSE IF KeyLess(x, Head(sorted)) THEN <<x>> \o sorted
    ELSE <<Head(sorted)>> \o InsertSorted(Tail(sorted), x)

\* commands.sort(key=...): ascending and stable
RECURSIVE SortByKey(_)
SortByKey(cmds) ==
    IF cmds = <<>> THEN <<>>
    ELSE InsertSorted(SortByKey(SubSeq(cmds, 1, Len(cmds) - 1)), cmds[Len(cmds)])

\* the grouping loop from descriptor n on; by.keys is the dict's key order
RECURSIVE GroupFrom(_, _, _)
GroupFrom(cmds, n, by) ==
    IF n > Len(cmds) THEN by
    ELSE LET cat == cmds[n].category
             lists == IF \E k \in 1..Len(by.keys) : by.keys[k] = cat
                      THEN by.lists ELSE (cat :> <<>>) @@ by.lists
             keys == IF \E k \in 1..Len(by.keys) : by.keys[k] = cat
                     THEN by.keys ELSE Append(by.keys, cat)
         IN  GroupFrom(cmds, n + 1,
                       [keys |-> keys,
                        lists |-> [lists EXCEPT ![cat] = Append(lists[cat], cmds[n])]])

\* generate_registry(commands, prefs) (version, source_url, generated_by and
\* node_prefs, which do not depend on the commands, are left out)
generate_registry(cmds) ==
    LET sorted == SortByKey(cmds)
        by_category == GroupFrom(sorted, 1, [keys |-> <<>>, lists |-> <<>>])
    IN  [total_commands |-> Len(sorted),
         categories |-> by_category.keys,
         commands |-> sorted,
         commands_by_category |-> by_category.lists]

\* json.dump(registry, f)
JsonDocument(reg) == [kind |-> "json", document |-> reg]

\* generate_typescript(registry, path): the listing of the commands (name,
\* category, params, serialOnly, hasParam) and of the categories
TypescriptListing(reg) ==
    [kind |-> "ts",
     commands |-> [k \in 1..Len(reg.commands) |->
                     [name |-> reg.commands[k].name,
                      category |-> reg.commands[k].category,
                      params |-> reg.commands[k].params,
                      serialOnly |-> reg.commands[k].serial_only,
                      hasParam |-> reg.commands[k].has_param]],
     categories |-> reg.categories]

\* ts_output = args.output.replace('.json', '.ts')
TsOutput(out) == ReplaceAll(out, ".json", ".ts")

\* Descriptors as parse_commands builds them for a token with nothing in its window
PoolDescriptor(name, category) ==
    [name |-> name, category |-> category, params |-> <<>>, response_format |-> None,
     serial_only |-> is_serial_only_command(name), has_param |-> Contains(name, " ")]
CommandPool ==
    { PoolDescriptor("get af", "get"), PoolDescriptor("set af", "set"),
      PoolDescriptor("af", "config"), PoolDescriptor("ver", "system"),
      PoolDescriptor("clock sync", "system"), PoolDescriptor("clock", "system"),
      PoolDescriptor("neighbors", "neighbor"),
      PoolDescriptor("neighbor.remove", "neighbor") }
\* what parse_commands can return: no name twice
CommandLists ==
    {q \in SeqsOver(CommandPool, 0, MaxCmds) :
        \A a, b \in 1..Len(q) : a # b => q[a].name # q[b].name}
\* values of --output: the default, one in a directory, without extension,
\* with another extension, below a directory whose name holds ".json"
Outputs ==
    { "meshcore-commands.json", "out/cmds.json", "registry", "cmds.txt",
      "data.json.d/cmds.json" }

scan_vars == <<lines, i, current_category, in_get_block, in_set_block,
               serial_only_context, pc, log>>

\* main after `commands = parse_commands(cpp_source)` (line 405)
MainInit ==
    /\ parsed \in CommandLists
    /\ commands = parsed
    /\ output \in Outputs
    /\ typescript \in BOOLEAN
    /\ ts_output = ""
    /\ registry = NoRegistry
    /\ files = <<>>
    /\ mpc = "parsed"
    /\ lines = <<>>
    /\ i = 0
    /\ current_category = None
    /\ in_get_block = FALSE
    /\ in_set_block = FALSE
    /\ serial_only_context = FALSE
    /\ pc = "done"
    /\ log = <<>>
    /\ FormatIdle
    /\ PatchIdle

\* registry = generate_registry(commands, prefs): sorts `commands` in place
GenerateRegistry ==
    /\ mpc = "parsed"
    /\ registry' = generate_registry(commands)
    /\ commands' = registry'.commands
    /\ mpc' = "registry"
    /\ UNCHANGED <<parsed, output, typescript, ts_output, files, scan_vars, format_vars, patch_vars>>

\* with open(args.output, 'w') as f: json.dump(registry, f, indent=2)
WriteJson ==
    /\ mpc = "registry"
    /\ files' = (output :> JsonDocument(registry)) @@ files
    /\ mpc' = "json"
    /\ UNCHANGED <<parsed, output, typescript, ts_output, registry, commands,
                   scan_vars, format_vars, patch_vars>>

\* if args.typescript: generate_typescript(registry, ts_output)
WriteTypescript ==
    /\ mpc = "json"
    /\ typescript
    /\ ts_output' = TsOutput(output)
    /\ files' = (ts_output' :> TypescriptListing(registry)) @@ files
    /\ mpc' = "ts"
    /\ UNCHANGED <<parsed, output, typescript, registry, commands, scan_vars, format_vars, patch_vars>>

\* the summary is printed and main returns
MainReturn ==
    /\ \/ mpc = "json" /\ ~typescript
       \/ mpc = "ts"
    /\ mpc' = "exit"
    /\ UNCHANGED <<parsed, output, typescript, ts_output, registry, files, commands,
                   scan_vars, format_vars, patch_vars>>

MainNext == GenerateRegistry \/ WriteJson \/ WriteTypescript \/ MainReturn

MainSpec == MainInit /\ [][MainNext]_<<vars, other_vars>>

\* --------------------------------------- patches/mesh_cli_enhancements.py
\* The texts of patch_file, as written in the source
\* init_pattern, a regular expression whose every character is literal or
\* escaped, in one group: the text it matches
init_pattern ==
    "self.repeater_config = config.get('repeater', {})"

\* init_replacement after its \1 (the group, that is the whole match)
init_replacement ==
    "\n"
    \o "        \n"
    \o "        # pymc_console: tempradio auto-revert state\n"
    \o "        self._tempradio_task = None\n"
    \o "        self._tempradio_original_config = None"

old_reboot ==
    "def _cmd_reboot(self) -> str:\n"
    \o "        \"\"\"Reboot the repeater process.\"\"\"\n"
    \o "        logger.warning(\"Reboot command received - not implemented (use systemctl restart)\")\n"
    \o "        return \"Error: Use systemctl restart pymc-repeater\""

new_reboot ==
    "def _cmd_reboot(self) -> str:\n"
    \o "        \"\"\"Reboot the repeater process via systemctl.\"\"\"\n"
    \o "        try:\n"
    \o "            import asyncio\n"
    \o "            \n"
    \o "            async def delayed_restart():\n"
    \o "                \"\"\"Delay restart to let CLI response send first.\"\"\"\n"
    \o "                await asyncio.sleep(0.5)\n"
    \o "                subprocess.Popen(\n"
    \o "                    [\"systemctl\", \"restart\", \"pymc-repeater\"],\n"
    \o "                    stdout=subprocess.DEVNULL,\n"
    \o "                    stderr=subprocess.DEVNULL,\n"
    \o "                    start_new_session=True\n"
    \o "                )\n"
    \o "            \n"
    \o "            asyncio.create_task(delayed_restart())\n"
    \o "            logger.info(\"Service restart scheduled\")\n"
    \o "            return \"OK - rebooting...\"\n"
    \o "        except Exception as e:\n"
    \o "            logger.error(f\"Failed to schedule restart: {e}\")\n"
    \o "            return f\"Error: {e}\""

old_clear_stats ==
    "def _cmd_clear_stats(self) -> str:\n"
    \o "        \"\"\"Clear statistics.\"\"\"\n"
    \o "        # TODO: Implement stats clearing\n"
    \o "        return \"Error: Not yet implemented\""

new_clear_stats ==
    "def _cmd_clear_stats(self) -> str:\n"
    \o "        \"\"\"Clear statistics counters.\"\"\"\n"
    \o "        if not self.storage_handler:\n"
    \o "            return \"Error: Storage not available\"\n"
    \o "        \n"
    \o "        try:\n"
    \o "            # Clear packet stats if method exists\n"
    \o "            if hasattr(self.storage_handler, 'clear_stats'):\n"
    \o "                self.storage_handler.clear_stats()\n"
    \o "                logger.info(\"Statistics cleared via CLI\")\n"
    \o "                return \"OK - stats reset\"\n"
    \o "            else:\n"
    \o "                # Fallback: just log that we would clear\n"
    \o "                logger.info(\"clear stats requested (storage_handler.clear_stats not available)\")\n"
    \o "                return \"OK - stats reset\"\n"
    \o "        except Exception as e:\n"
    \o "            logger.error(f\"Failed to clear stats: {e}\")\n"
    \o "            return f\"Error: {e}\""

old_neighbor_remove ==
    "def _cmd_neighbor_remove(self, command: str) -> str:\n"
    \o "        \"\"\"Remove a neighbor.\"\"\"\n"
    \o "        pubkey_hex = command[16:].strip()\n"
    \o "        \n"
    \o "        if not pubkey_hex:\n"
    \o "            return \"ERR: Missing pubkey\"\n"
    \o "        \n"
    \o "        # TODO: Remove neighbor from routing table\n"
    \o "        logger.info(f\"neighbor.remove: {pubkey_hex}\")\n"
    \o "        return \"Error: Not yet implemented\""

new_neighbor_remove ==
    "def _cmd_neighbor_remove(self, command: str) -> str:\n"
    \o "        \"\"\"Remove a neighbor by pubkey prefix.\"\"\"\n"
    \o "        pubkey_hex = command[16:].strip()\n"
    \o "        \n"
    \o "        if not pubkey_hex:\n"
    \o "            return \"ERR: Missing pubkey\"\n"
    \o "        \n"
    \o "        if not self.storage_handler:\n"
    \o "            return \"Error: Storage not available\"\n"
    \o "        \n"
    \o "        try:\n"
    \o "            # Try to remove neighbor if method exists\n"
    \o "            if hasattr(self.storage_handler, 'remove_neighbor'):\n"
    \o "                removed = self.storage_handler.remove_neighbor(pubkey_hex)\n"
    \o "                if removed:\n"
    \o "                    logger.info(f\"Removed neighbor: {pubkey_hex}\")\n"
    \o "                    return \"OK\"\n"
    \o "                else:\n"
    \o "                    return f\"Error: Neighbor {pubkey_hex} not found\"\n"
    \o "            else:\n"
    \o "                # Fallback: check if neighbor exists and log\n"
    \o "                neighbors = self.storage_handler.get_neighbors() if hasattr(self.storage_handler, 'get_neighbors') else {}\n"
    \o "                matching = [k for k in neighbors.keys() if k.startswith(pubkey_hex)]\n"
    \o "                if matching:\n"
    \o "                    logger.info(f\"neighbor.remove requested for {pubkey_hex} (remove_neighbor not available)\")\n"
    \o "                    return f\"OK - marked for removal: {matching[0][:16]}\"\n"
    \o "                else:\n"
    \o "                    return f\"Error: Neighbor {pubkey_hex} not found\"\n"
    \o "        except Exception as e:\n"
    \o "            logger.error(f\"Failed to remove neighbor: {e}\")\n"
    \o "            return f\"Error: {e}\""

old_tempradio ==
    "def _cmd_tempradio(self, command: str) -> str:\n"
    \o "        \"\"\"Apply temporary radio parameters.\"\"\"\n"
    \o "        # Format: tempradio {freq} {bw} {sf} {cr} {timeout_mins}\n"
    \o "        parts = command[10:].split()\n"
    \o "        \n"
    \o "        if len(parts) < 5:\n"
    \o "            return \"Error: Expected freq bw sf cr timeout_mins\"\n"
    \o "        \n"
    \o "        try:\n"
    \o "            freq = float(parts[0])\n"
    \o "            bw = float(parts[1])\n"
    \o "            sf = int(parts[2])\n"
    \o "            cr = int(parts[3])\n"
    \o "            timeout_mins = int(parts[4])\n"
    \o "            \n"
    \o "            # Validate\n"
    \o "            if not (300.0 <= freq <= 2500.0):\n"
    \o "                return \"Error: invalid frequency\"\n"
    \o "            if not (7.0 <= bw <= 500.0):\n"
    \o "                return \"Error: invalid bandwidth\"\n"
    \o "            if not (5 <= sf <= 12):\n"
    \o "                return \"Error: invalid spreading factor\"\n"
    \o "            if not (5 <= cr <= 8):\n"
    \o "                return \"Error: invalid coding rate\"\n"
    \o "            if timeout_mins <= 0:\n"
    \o "                return \"Error: invalid timeout\"\n"
    \o "            \n"
    \o "            # TODO: Apply temporary radio parameters\n"
    \o "            logger.info(f\"tempradio: {freq}MHz {bw}kHz SF{sf} CR4/{cr} for {timeout_mins}min\")\n"
    \o "            return \"Error: Not yet implemented\"\n"
    \o "            \n"
    \o "        except ValueError:\n"
    \o "            return \"Error, invalid params\""

new_tempradio ==
    "def _cmd_tempradio(self, command: str) -> str:\n"
    \o "        \"\"\"Apply temporary radio parameters with auto-revert.\n"
    \o "        \n"
    \o "        Format: tempradio {freq} {bw} {sf} {cr} {timeout_mins}\n"
    \o "        \n"
    \o "        Saves current radio config, applies new params, schedules revert.\n"
    \o "        After timeout_mins, restores original config and restarts service.\n"
    \o "        \"\"\"\n"
    \o "        parts = command[10:].split()\n"
    \o "        \n"
    \o "        if len(parts) < 5:\n"
    \o "            return \"Error: Expected freq bw sf cr timeout_mins\"\n"
    \o "        \n"
    \o "        try:\n"
    \o "            freq = float(parts[0])\n"
    \o "            bw = float(parts[1])\n"
    \o "            sf = int(parts[2])\n"
    \o "            cr = int(parts[3])\n"
    \o "            timeout_mins = int(parts[4])\n"
    \o "            \n"
    \o "            # Validate (MeshCore ranges)\n"
    \o "            if not (300.0 <= freq <= 2500.0):\n"
    \o "                return \"Error: invalid frequency\"\n"
    \o "            if not (7.0 <= bw <= 500.0):\n"
    \o "                return \"Error: invalid bandwidth\"\n"
    \o "            if not (5 <= sf <= 12):\n"
    \o "                return \"Error: invalid spreading factor\"\n"
    \o "            if not (5 <= cr <= 8):\n"
    \o "                return \"Error: invalid coding rate\"\n"
    \o "            if timeout_mins <= 0 or timeout_mins > 1440:\n"
    \o "                return \"Error: timeout must be 1-1440 minutes\"\n"
    \o "            \n"
    \o "            # Cancel any existing tempradio task\n"
    \o "            if self._tempradio_task and not self._tempradio_task.done():\n"
    \o "                self._tempradio_task.cancel()\n"
    \o "                logger.info(\"Cancelled previous tempradio timer\")\n"
    \o "            \n"
    \o "            # Save original config (only if not already saved)\n"
    \o "            if self._tempradio_original_config is None:\n"
    \o "                self._tempradio_original_config = {\n"
    \o "                    'frequency': self.config.get('radio', {}).get('frequency'),\n"
    \o "                    'bandwidth': self.config.get('radio', {}).get('bandwidth'),\n"
    \o "                    'spreading_factor': self.config.get('radio', {}).get('spreading_factor'),\n"
    \o "                    'coding_rate': self.config.get('radio', {}).get('coding_rate'),\n"
    \o "                }\n"
    \o "                logger.info(f\"Saved original radio config: {self._tempradio_original_config}\")\n"
    \o "            \n"
    \o "            # Apply new config\n"
    \o "            if 'radio' not in self.config:\n"
    \o "                self.config['radio'] = {}\n"
    \o "            \n"
    \o "            self.config['radio']['frequency'] = int(freq * 1_000_000)  # MHz to Hz\n"
    \o "            self.config['radio']['bandwidth'] = int(bw * 1000)  # kHz to Hz\n"
    \o "            self.config['radio']['spreading_factor'] = sf\n"
    \o "            self.config['radio']['coding_rate'] = cr\n"
    \o "            self.save_config()\n"
    \o "            \n"
    \o "            logger.info(f\"Applied tempradio: {freq}MHz {bw}kHz SF{sf} CR4/{cr} for {timeout_mins}min\")\n"
    \o "            \n"
    \o "            # Schedule revert\n"
    \o "            import asyncio\n"
    \o "            \n"
    \o "            async def revert_radio():\n"
    \o "                \"\"\"Revert to original radio config after timeout.\"\"\"\n"
    \o "                try:\n"
    \o "                    await asyncio.sleep(timeout_mins * 60)\n"
    \o "                    \n"
    \o "                    # Restore original config\n"
    \o "                    if self._tempradio_original_config:\n"
    \o "                        for key, value in self._tempradio_original_config.items():\n"
    \o "                            if value is not None:\n"
    \o "                                self.config['radio'][key] = value\n"
    \o "                        self.save_config()\n"
    \o "                        self._tempradio_original_config = None\n"
    \o "                        \n"
    \o "                        logger.info(\"tempradio timeout - restored original config, restarting service\")\n"
    \o "                        \n"
    \o "                        # Restart service to apply original config\n"
    \o "                        subprocess.Popen(\n"
    \o "                            [\"systemctl\", \"restart\", \"pymc-repeater\"],\n"
    \o "                            stdout=subprocess.DEVNULL,\n"
    \o "                            stderr=subprocess.DEVNULL,\n"
    \o "                            start_new_session=True\n"
    \o "                        )\n"
    \o "                except asyncio.CancelledError:\n"
    \o "                    logger.info(\"tempradio revert cancelled\")\n"
    \o "                except Exception as e:\n"
    \o "                    logger.error(f\"tempradio revert failed: {e}\")\n"
    \o "            \n"
    \o "            self._tempradio_task = asyncio.create_task(revert_radio())\n"
    \o "            \n"
    \o "            return f\"OK - temp params for {timeout_mins} mins\"\n"
    \o "            \n"
    \o "        except ValueError:\n"
    \o "            return \"Error, invalid params\""

old_stats_routing ==
    "# Statistics commands\n"
    \o "        elif command.startswith(\"stats-\"):\n"
    \o "            return \"Error: Stats commands not fully implemented yet\""

new_stats_routing ==
    "# Statistics commands\n"
    \o "        elif command == \"stats-packets\":\n"
    \o "            return self._cmd_stats_packets()\n"
    \o "        elif command == \"stats-radio\":\n"
    \o "            return self._cmd_stats_radio()\n"
    \o "        elif command == \"stats-core\":\n"
    \o "            return self._cmd_stats_core()\n"
    \o "        elif command.startswith(\"stats-\"):\n"
    \o "            return f\"Unknown stats command: {command}\""

old_ver_routing ==
    "elif command == \"ver\":\n"
    \o "            return self._cmd_version()"

new_ver_routing ==
    "elif command == \"ver\":\n"
    \o "            return self._cmd_version()\n"
    \o "        elif command == \"board\":\n"
    \o "            return self._cmd_board()"

stats_methods ==
    "\n"
    \o "    # ==================== Statistics Commands (pymc_console) ====================\n"
    \o "    \n"
    \o "    def _cmd_stats_packets(self) -> str:\n"
    \o "        \"\"\"Show packet statistics (MeshCore parity).\"\"\"\n"
    \o "        if not self.storage_handler:\n"
    \o "            return \"Error: Storage not available\"\n"
    \o "        \n"
    \o "        try:\n"
    \o "            # Get stats from storage if available\n"
    \o "            stats = {}\n"
    \o "            if hasattr(self.storage_handler, 'get_packet_stats'):\n"
    \o "                stats = self.storage_handler.get_packet_stats()\n"
    \o "            elif hasattr(self.storage_handler, 'get_stats'):\n"
    \o "                stats = self.storage_handler.get_stats()\n"
    \o "            \n"
    \o "            rx = stats.get('rx_count', stats.get('received', 0))\n"
    \o "            tx = stats.get('tx_count', stats.get('transmitted', 0))\n"
    \o "            fwd = stats.get('forwarded_count', stats.get('forwarded', 0))\n"
    \o "            drop = stats.get('dropped_count', stats.get('dropped', 0))\n"
    \o "            \n"
    \o "            return f\"rx: {rx}\\ntx: {tx}\\nfwd: {fwd}\\ndrop: {drop}\"\n"
    \o "        except Exception as e:\n"
    \o "            logger.error(f\"stats-packets error: {e}\")\n"
    \o "            return f\"Error: {e}\"\n"
    \o "    \n"
    \o "    def _cmd_stats_radio(self) -> str:\n"
    \o "        \"\"\"Show radio statistics (MeshCore parity).\"\"\"\n"
    \o "        radio = self.config.get('radio', {})\n"
    \o "        \n"
    \o "        freq_hz = radio.get('frequency', 915000000)\n"
    \o "        bw_hz = radio.get('bandwidth', 125000)\n"
    \o "        sf = radio.get('spreading_factor', 7)\n"
    \o "        cr = radio.get('coding_rate', 5)\n"
    \o "        tx_power = radio.get('tx_power', 20)\n"
    \o "        \n"
    \o "        freq_mhz = freq_hz / 1_000_000.0\n"
    \o "        bw_khz = bw_hz / 1_000.0\n"
    \o "        \n"
    \o "        # Get noise floor if available\n"
    \o "        noise = \"?\"\n"
    \o "        if self.storage_handler and hasattr(self.storage_handler, 'get_noise_floor'):\n"
    \o "            noise = self.storage_handler.get_noise_floor()\n"
    \o "        \n"
    \o "        return (\n"
    \o "            f\"freq: {freq_mhz:.3f} MHz\\n\"\n"
    \o "            f\"bw: {bw_khz:.0f} kHz\\n\"\n"
    \o "            f\"sf: {sf}\\n\"\n"
    \o "            f\"cr: {cr}\\n\"\n"
    \o "            f\"tx_pwr: {tx_power} dBm\\n\"\n"
    \o "            f\"noise: {noise} dBm\"\n"
    \o "        )\n"
    \o "    \n"
    \o "    def _cmd_stats_core(self) -> str:\n"
    \o "        \"\"\"Show core statistics (MeshCore parity).\"\"\"\n"
    \o "        import time\n"
    \o "        \n"
    \o "        # Basic uptime (process start time not tracked, use placeholder)\n"
    \o "        uptime_str = \"unknown\"\n"
    \o "        \n"
    \o "        # Get neighbor count\n"
    \o "        neighbor_count = 0\n"
    \o "        if self.storage_handler and hasattr(self.storage_handler, 'get_neighbors'):\n"
    \o "            neighbors = self.storage_handler.get_neighbors()\n"
    \o "            neighbor_count = len(neighbors) if neighbors else 0\n"
    \o "        \n"
    \o "        # Get stats\n"
    \o "        stats = {}\n"
    \o "        if self.storage_handler:\n"
    \o "            if hasattr(self.storage_handler, 'get_stats'):\n"
    \o "                stats = self.storage_handler.get_stats()\n"
    \o "        \n"
    \o "        rx_hr = stats.get('rx_per_hour', '?')\n"
    \o "        fwd_hr = stats.get('forwarded_per_hour', '?')\n"
    \o "        airtime = stats.get('utilization_percent', '?')\n"
    \o "        \n"
    \o "        return (\n"
    \o "            f\"uptime: {uptime_str}\\n\"\n"
    \o "            f\"rx/hr: {rx_hr}\\n\"\n"
    \o "            f\"fwd/hr: {fwd_hr}\\n\"\n"
    \o "            f\"neighbors: {neighbor_count}\\n\"\n"
    \o "            f\"airtime: {airtime}%\"\n"
    \o "        )\n"
    \o "    \n"
    \o "    def _cmd_board(self) -> str:\n"
    \o "        \"\"\"Show board/platform information (MeshCore parity).\"\"\"\n"
    \o "        import platform\n"
    \o "        return f\"pyMC_Repeater ({platform.system()}/{platform.machine()})\"\n"

\* content.find(lit): the first position (1-based) where lit starts, 0 for none
Find(s, lit) ==
    LET ps == {p \in 1..(Len(s) - Len(lit) + 1) : StartsWithAt(s, p, lit)}
    IN  IF ps = {} THEN 0 ELSE CHOOSE p \in ps : \A y \in ps : p <= y

\* content.rfind(lit): the last position (1-based) where lit starts, 0 for none
RFind(s, lit) ==
    LET ps == {p \in 1..(Len(s) - Len(lit) + 1) : StartsWithAt(s, p, lit)}
    IN  IF ps = {} THEN 0 ELSE CHOOSE p \in ps : \A y \in ps : p >= y

\* content.find(lit, start): the first position >= from where lit starts, 0 for none
FindFrom(s, lit, from) ==
    LET ps == {p \in from..(Len(s) - Len(lit) + 1) : StartsWithAt(s, p, lit)}
    IN  IF ps = {} THEN 0 ELSE CHOOSE p \in ps : \A y \in ps : p <= y

\* What one patch returns: the text, and whether its name was appended to
\* patches_applied
Edit(text, applied) == [content |-> text, applied |-> applied]

\* PATCH 1 (a position p here is the source's index + 1, so `> 0` reads `> 1`)
PatchImports(c) ==
    IF Contains(c, "import subprocess") THEN Edit(c, FALSE)
    ELSE LET logger_pos == Find(c, "\nlogger = ")
         IN  IF logger_pos > 1
             THEN LET import_section == SubSeq(c, 1, logger_pos - 1)
                      rest == SubSeq(c, logger_pos, Len(c))
                  IN  IF Contains(import_section, "import subprocess") THEN Edit(c, FALSE)
                      ELSE Edit(ReplaceAll(import_section, "import time\n",
                                    "import time\nimport subprocess  # pymc_console: for systemctl commands\n")
                                  \o rest, TRUE)
             ELSE Edit(c, FALSE)

\* PATCH 2: re.sub replaces every match by the match followed by init_replacement
PatchTempradioState(c) ==
    IF Contains(c, "_tempradio_task") THEN Edit(c, FALSE)
    ELSE Edit(ReplaceAll(c, init_pattern, init_pattern \o init_replacement), TRUE)

\* PATCHES 3 to 7: `if old in content: content = content.replace(old, new)`
PatchReplace(c, old, new) ==
    IF Contains(c, old) THEN Edit(ReplaceAll(c, old, new), TRUE) ELSE Edit(c, FALSE)

\* PATCH 8
PatchBoardRouting(c) ==
    IF Contains(c, "command == \"board\"") THEN Edit(c, FALSE)
    ELSE PatchReplace(c, old_ver_routing, new_ver_routing)

\* PATCH 9
PatchStatsMethods(c) ==
    IF Contains(c, "def _cmd_stats_packets") THEN Edit(c, FALSE)
    ELSE LET log_method_end == RFind(c, "return \"Unknown log command\"")
             newline_pos == FindFrom(c, "\n", log_method_end)
         IN  IF log_method_end > 1 /\ newline_pos > 1
             THEN Edit(SubSeq(c, 1, newline_pos - 1) \o stats_methods
                         \o SubSeq(c, newline_pos, Len(c)), TRUE)
             ELSE Edit(c, FALSE)

\* A write whatever the content is
ShouldWrite_always(c, orig) == TRUE

\* `if content != original:` the file is written
ShouldWrite(c, orig) == c # orig

\* An exit status that does not depend on what patch_file returned
ExitStatus_always_zero(success) == 0

\* sys.exit(0 if success else 1)
ExitStatus(success) == IF success THEN 0 ELSE 1

\* Parts a mesh_cli.py is made of, in the order they have in that file
Parts ==
    << "#!/usr/bin/env python3\n",
       "import time\n",
       "import subprocess\n",
       "\nlogger = logging.getLogger(__name__)\n",
       "        self.repeater_config = config.get('repeater', {})\n",
       "    " \o old_reboot \o "\n\n",
       "    " \o old_clear_stats \o "\n\n",
       "    " \o old_neighbor_remove \o "\n\n",
       "    " \o old_tempradio \o "\n\n",
       "        " \o old_ver_routing \o "\n",
       "        " \o old_stats_routing \o "\n",
       "            return \"Unknown log command\"\n",
       "            return \"Unknown log command\"" >>

\* The parts numbered in `chosen`, in file order or in the opposite order
RECURSIVE FileOf(_, _, _)
FileOf(chosen, k, backwards) ==
    IF k > Len(Parts) THEN ""
    ELSE LET part == IF k \in chosen THEN Parts[k] ELSE ""
         IN  IF backwards THEN FileOf(chosen, k + 1, backwards) \o part
             ELSE part \o FileOf(chosen, k + 1, backwards)

\* Every file of at most MaxParts parts, and the file with all the parts but
\* `import subprocess` and the second copy of the last line
Files ==
    {FileOf(chosen, 1, b) : chosen \in {S \in SUBSET (1..Len(Parts)) : Cardinality(S) <= MaxParts},
                            b \in BOOLEAN}
      \cup {FileOf((1..12) \ {3}, 1, FALSE)}

\* what the patch script leaves alone
non_patch_vars == <<vars, format_vars, main_vars>>

PatchInit ==
    /\ \/ has_arg = FALSE /\ disk = None
       \/ has_arg = TRUE /\ disk \in {None} \cup {Some(f) : f \in Files}
    /\ writes = 0
    /\ content = ""
    /\ original = ""
    /\ patches_applied = <<>>
    /\ edits = <<>>
    /\ outcome = ""
    /\ exit_status = NoStatus
    /\ runs = <<>>
    /\ ppc = "main"
    /\ ParseIdle
    /\ FormatIdle
    /\ MainIdle

\* The record of a finished invocation
Run(existed, orig, wrote, out, after, status) ==
    [existed |-> existed, original |-> orig, applied |-> patches_applied,
     edits |-> edits, wrote |-> wrote, outcome |-> out, disk |-> after,
     exit_status |-> status]

\* main without a path argument: usage, sys.exit(1)
Usage ==
    /\ ppc = "main"
    /\ ~has_arg
    /\ outcome' = "usage"
    /\ exit_status' = 1
    /\ ppc' = "exit"
    /\ runs' = Append(runs, Run(FALSE, "", FALSE, "usage", disk, 1))
    /\ UNCHANGED <<has_arg, disk, writes, content, original, patches_applied, edits,
                   non_patch_vars>>

\* patch_file on a path that does not exist: the error line, return False
NotFound ==
    /\ ppc = "main"
    /\ has_arg
    /\ ~disk.some
    /\ outcome' = "not_found"
    /\ exit_status' = ExitStatus(FALSE)
    /\ ppc' = "exit"
    /\ runs' = Append(runs, Run(FALSE, "", FALSE, "not_found", disk, ExitStatus(FALSE)))
    /\ UNCHANGED <<has_arg, disk, writes, content, original, patches_applied, edits,
                   non_patch_vars>>

\* content = path.read_text(); original = content; patches_applied = []
ReadFile ==
    /\ ppc = "main"
    /\ has_arg
    /\ disk.some
    /\ content' = disk.val
    /\ original' = disk.val
    /\ patches_applied' = <<>>
    /\ edits' = <<>>
    /\ ppc' = "patch1"
    /\ UNCHANGED <<has_arg, disk, writes, outcome, exit_status, runs,
                   non_patch_vars>>

\* One patch: its text, its name in patches_applied if it says so, and in
\* edits (history) if the text is another than before
Apply(name, r, next) ==
    /\ content' = r.content
    /\ patches_applied' = IF r.applied THEN Append(patches_applied, name)
                          ELSE patches_applied
    /\ edits' = IF r.content # content THEN Append(edits, name) ELSE edits
    /\ ppc' = next
    /\ UNCHANGED <<has_arg, disk, writes, original, outcome, exit_status, runs,
                   non_patch_vars>>

Patch1 == ppc = "patch1" /\ Apply("imports", PatchImports(content), "patch2")
Patch2 == ppc = "patch2" /\ Apply("tempradio_state", PatchTempradioState(content), "patch3")
Patch3 == ppc = "patch3" /\ Apply("reboot", PatchReplace(content, old_reboot, new_reboot), "patch4")
Patch4 ==
    ppc = "patch4" /\ Apply("clear_stats",
                            PatchReplace(content, old_clear_stats, new_clear_stats), "patch5")
Patch5 ==
    ppc = "patch5" /\ Apply("neighbor_remove",
                            PatchReplace(content, old_neighbor_remove, new_neighbor_remove),
                            "patch6")
Patch6 ==
    ppc = "patch6" /\ Apply("tempradio",
                            PatchReplace(content, old_tempradio, new_tempradio), "patch7")
Patch7 ==
    ppc = "patch7" /\ Apply("stats_routing",
                            PatchReplace(content, old_stats_routing, new_stats_routing),
                            "patch8")
Patch8 == ppc = "patch8" /\ Apply("board_routing", PatchBoardRouting(content), "patch9")
Patch9 == ppc = "patch9" /\ Apply("stats_methods", PatchStatsMethods(content), "write")

\* "Write patched content": write and report, or report that nothing changed;
\* return True either way, and main exits with 0
Finish ==
    /\ ppc = "write"
    /\ IF ShouldWrite(content, original)
       THEN /\ disk' = Some(content)
            /\ writes' = writes + 1
            /\ outcome' = "patched"
       ELSE /\ outcome' = "no_changes"
            /\ UNCHANGED <<disk, writes>>
    /\ exit_status' = ExitStatus(TRUE)
    /\ runs' = Append(runs, Run(TRUE, original, ShouldWrite(content, original),
                                IF ShouldWrite(content, original)
                                THEN "patched" ELSE "no_changes",
                                IF ShouldWrite(content, original)
                                THEN Some(content) ELSE disk,
                                ExitStatus(TRUE)))
    /\ ppc' = "exit"
    /\ UNCHANGED <<has_arg, content, original, patches_applied, edits,
                   non_patch_vars>>

\* The script is run again with the same argument
RunAgain ==
    /\ ppc = "exit"
    /\ Len(runs) < MaxRuns
    /\ content' = ""
    /\ original' = ""
    /\ patches_applied' = <<>>
    /\ edits' = <<>>
    /\ outcome' = ""
    /\ exit_status' = NoStatus
    /\ ppc' = "main"
    /\ UNCHANGED <<has_arg, disk, writes, runs,
                   non_patch_vars>>

PatchNext ==
    \/ Usage \/ NotFound \/ ReadFile
    \/ Patch1 \/ Patch2 \/ Patch3 \/ Patch4 \/ Patch5 \/ Patch6 \/ Patch7 \/ Patch8 \/ Patch9
    \/ Finish \/ RunAgain

PatchSpec == PatchInit /\ [][PatchNext]_<<vars, other_vars>>

\* ================================================================== claims
LastLine == Len(lines) - 1
Names(cmds) == {cmds[c].name : c \in 1..Len(cmds)}
\* The first match whose derived name is that of match e
FirstOf(e) == CHOOSE a \in 1..e :
    /\ log[a].desc.name = log[e].desc.name
    /\ \A b \in 1..(a - 1) : log[b].desc.name # log[e].desc.name

\* C1: the output never holds two descriptors with one name; for every match,
\* the output holds exactly one descriptor of its derived name, and it is the
\* descriptor computed at the first match of that name in line order; there
\* are as many descriptors as distinct derived names.
C1_UniqueFirstWins ==
    /\ \A a, b \in 1..Len(commands) : a # b => commands[a].name # commands[b].name
    /\ \A e \in 1..Len(log) :
          /\ Cardinality({c \in 1..Len(commands) : commands[c].name = log[e].desc.name}) = 1
          /\ \E c \in 1..Len(commands) : commands[c] = log[FirstOf(e)].desc
    /\ Len(commands) = Cardinality({log[e].desc.name : e \in 1..Len(log)})

\* Two matches of one name whose computed fields differ; the first was kept
C1_Witness ==
    /\ pc = "done"
    /\ \E a, b \in 1..Len(log) :
          /\ a < b
          /\ log[a].desc.name = log[b].desc.name
          /\ log[a].desc # log[b].desc
          /\ \E c \in 1..Len(commands) : commands[c] = log[a].desc

Categories ==
    {"get", "set", "logging", "gps", "sensor", "bridge", "stats", "neighbor",
     "system", "radio", "config", "other"}

\* C2: every descriptor's category is one of the twelve fixed labels.
C2_CategoryClosed ==
    \A c \in 1..Len(commands) : commands[c].category \in Categories

\* A `command` match no rule of classify_command names, in a get or set region
C2_Witness ==
    /\ pc = "done"
    /\ \E e \in 1..Len(log) :
          /\ log[e].var = "command"
          /\ log[e].get \/ log[e].set
          /\ log[e].desc.category = "other"
          /\ log[e].added

\* Indices of the lines i..i+14 of a match on line k, cut at the end of input
WindowOf(k) == k..Min(k + 14, LastLine)
HasConversion(j) == Facts(j).conversion # ""
HasReply(j) == Facts(j).reply_match.ok \/ Facts(j).strcpy_match.ok

\* C3: params and response_format of a match on line i come from lines i..i+14
\* only: no more parameters than those lines hold conversion calls, and a
\* response format only if one of those lines holds a reply-template call.
C3_LookaheadBounded ==
    \A e \in 1..Len(log) :
        /\ Len(log[e].desc.params)
              <= Cardinality({j \in WindowOf(log[e].line) : HasConversion(j)})
        /\ log[e].desc.response_format.some
              => \E j \in WindowOf(log[e].line) : HasReply(j)

\* A conversion call and a reply-template call at i+15 or later, none within
\* i..i+14: the descriptor has no parameter and no response format
C3_Witness ==
    \E e \in 1..Len(log) :
        /\ \E j \in (log[e].line + 15)..LastLine : HasConversion(j)
        /\ \E j \in (log[e].line + 15)..LastLine : HasReply(j)
        /\ log[e].desc.params = <<>>
        /\ log[e].desc.response_format = None
        /\ log[e].added

\* The four placeholder substitutions applied to a literal
Normalized(s) ==
    SubFrom("float", SubFrom("uint", SubFrom("str", SubFrom("int", s, 1), 1), 1), 1)
\* The first line of the window of a match on line k that holds a reply-template call
FirstReplyLine(k) ==
    CHOOSE j \in WindowOf(k) : HasReply(j) /\ \A h \in WindowOf(k) : HasReply(h) => j <= h
ReplyLiterals(j) ==
    {Facts(j).reply_match.str : x \in {y \in {1} : Facts(j).reply_match.ok}}
      \cup {Facts(j).strcpy_match.str : x \in {y \in {1} : Facts(j).strcpy_match.ok}}

\* C4: response_format is the normalized literal of the first reply-template
\* call in window order over lines i..i+14, whatever that literal is: a later
\* call never overwrites it, and no call gives None.  (A first literal that is
\* empty may be reported as None: what is refuted is a later call replacing it.)
C4_FirstReplyKept ==
    \A e \in 1..Len(log) :
        LET k == log[e].line
            rf == log[e].desc.response_format
        IN  IF \E j \in WindowOf(k) : HasReply(j)
            THEN \/ \E l \in ReplyLiterals(FirstReplyLine(k)) : rf = Some(Normalized(l))
                 \/ "" \in ReplyLiterals(FirstReplyLine(k)) /\ rf = None
            ELSE rf = None

GetAnnounced(j) == Facts(j).get
SetAnnounced(j) == Facts(j).set /\ ~Facts(j).get
\* Line j ends a get region (a set region) that is active when it is reached
EndsGet(j) == ~Facts(j).get /\ (Facts(j).set \/ Facts(j).leaves_get)
EndsSet(j) == Facts(j).get \/ (~Facts(j).set /\ Facts(j).leaves_set)
\* The region announced at or before line k and not ended since
GetActiveAt(k) == \E a \in 0..k : GetAnnounced(a) /\ \A b \in (a + 1)..k : ~EndsGet(b)
SetActiveAt(k) == \E a \in 0..k : SetAnnounced(a) /\ \A b \in (a + 1)..k : ~EndsSet(b)

\* C5: name and category of a match follow from the matched variable and the
\* region active at its line: config in a get region gives "get " + trimmed
\* literal and get, config in a set region "set " + trimmed literal and set,
\* config in no region the trimmed literal and config, command the trimmed
\* literal and classify_command of it.  A region lasts from the line that
\* announces it to the line that ends it, however many lines lie between.
C5_NameAndCategory ==
    \A e \in 1..Len(log) :
        LET k == log[e].line
            d == log[e].desc
            lit == Strip(log[e].str)
        IN  /\ log[e].var \in {"command", "config"}
            /\ log[e].var = "config" /\ GetActiveAt(k)
                  => d.name = "get " \o lit /\ d.category = "get"
            /\ log[e].var = "config" /\ SetActiveAt(k)
                  => d.name = "set " \o lit /\ d.category = "set"
            /\ log[e].var = "config" /\ ~GetActiveAt(k) /\ ~SetActiveAt(k)
                  => d.name = lit /\ d.category = "config"
            /\ log[e].var = "command"
                  => d.name = lit /\ d.category = classify_command(lit)

\* A config match two lines or more after the line that announced the get region
C5_Witness ==
    \E e \in 1..Len(log) :
        LET k == log[e].line
        IN  /\ k >= 2
            /\ GetAnnounced(k - 2) /\ ~Facts(k - 1).get /\ ~Facts(k).get
            /\ log[e].var = "config"
            /\ log[e].desc.name = "get " \o Strip(log[e].str)
            /\ log[e].desc.category = "get"
            /\ log[e].added

SerialOnlyNames ==
    {"get prv.key", "set prv.key", "erase", "log", "stats-packets", "stats-radio",
     "stats-core", "set freq"}
Marker(j) == Facts(j).serial_marker
Boundary(j) == Facts(j).boundary

\* C6: serial_only of a match is the serial-only context flag at the moment of
\* the match, or its name being in the fixed list; a match on the line right
\* after a marker line, in the block that is open there (the line of the match
\* does not start a new branch), has serial_only true.
C6_SerialOnlyOr ==
    \A e \in 1..Len(log) :
        LET k == log[e].line
            d == log[e].desc
        IN  /\ d.serial_only = (log[e].context \/ d.name \in SerialOnlyNames)
            /\ k >= 1 /\ Marker(k - 1) /\ ~Boundary(k) => d.serial_only

\* C7: a match whose name is not in the fixed list, on a line that starts a new
\* branch (`} else`) or on a later line, with no marker on its own line nor
\* between that branch line and it, has serial_only false.
C7_ScopedToBlock ==
    \A e \in 1..Len(log) :
        LET k == log[e].line
        IN  (/\ log[e].desc.name \notin SerialOnlyNames
             /\ ~Marker(k)
             /\ \E b \in 0..k : Boundary(b) /\ \A j \in (b + 1)..k : ~Marker(j))
            => ~log[e].desc.serial_only

EndsWithSpace(s) == Len(s) > 0 /\ Char(s, Len(s)) = " "

\* C8: has_param is true exactly when the matched literal carries a trailing
\* space or at least one parameter was inferred.
C8_HasParamTrailingSpace ==
    \A e \in 1..Len(log) :
        log[e].desc.has_param
            = (EndsWithSpace(log[e].str) \/ Len(log[e].desc.params) > 0)

\* The conversion calls of a line, by position: atof, atoi (also as _atoi), strncpy
RECURSIVE CallsFrom(_, _)
CallsFrom(s, p) ==
    IF p > Len(s) THEN <<>>
    ELSE (IF StartsWithAt(s, p, "atof(") THEN <<"float">>
          ELSE IF StartsWithAt(s, p, "atoi(") THEN <<"int">>
          ELSE IF StartsWithAt(s, p, "strncpy(") THEN <<"string">>
          ELSE <<>>) \o CallsFrom(s, p + 1)
CallTypes == [l \in AllLines |-> CallsFrom(l, 1)]
RECURSIVE WindowCalls(_, _)
WindowCalls(j, last) ==
    IF j > last THEN <<>> ELSE CallTypes[Line(j)] \o WindowCalls(j + 1, last)

\* C9: params holds one entry per conversion call of lines i..i+14, in
\* encounter order, typed float / int / string, each named "value".
C9_OnePerCall ==
    \A e \in 1..Len(log) :
        LET ps == log[e].desc.params
        IN  /\ [x \in 1..Len(ps) |-> ps[x].type]
                  = WindowCalls(log[e].line, Min(log[e].line + 14, LastLine))
            /\ \A x \in 1..Len(ps) : ps[x].name = "value"

\* C10: the get and the set context are never both active; after a line that
\* announces a region, that region is the active one and the other is cleared
\* (a line that announces both counts as announcing get, which the source tests first).
C10_OneContext ==
    /\ ~(in_get_block /\ in_set_block)
    /\ i >= 1 /\ GetAnnounced(i - 1) => in_get_block /\ ~in_set_block
    /\ i >= 1 /\ SetAnnounced(i - 1) => in_set_block /\ ~in_get_block

\* A set region announced while the get region was active
C10_Witness ==
    /\ i >= 2
    /\ GetAnnounced(i - 2) /\ SetAnnounced(i - 1)
    /\ in_set_block /\ ~in_get_block

\* A reply template without any % character: its only special texts are placeholders
PercentFree(s) == ~Contains(s, "%")

\* C11: clean_response_format returns an already-normalized string unchanged:
\* a non-empty template that holds placeholders and other text but no %
\* comes back as it was, and so does the result of a first application that
\* left no % behind when the function is applied to it again.
C11_NormalizedUnchanged ==
    /\ fpc \in {"once", "twice"} /\ Truthy(fmt) /\ PercentFree(fmt.val) => once = fmt
    /\ fpc = "twice" /\ Truthy(once) /\ PercentFree(once.val) => twice = once

\* Placeholders next to a letter that ends a specifier, cleaned twice, unchanged;
\* and a template with specifiers whose result is cleaned again, unchanged
C11_Witness ==
    /\ fpc = "twice"
    /\ \/ fmt = Some("{float}{str}d") /\ once = fmt /\ twice = fmt
       \/ fmt = Some("%.2f%s") /\ once = Some("{float}{str}") /\ twice = once

\* C18: clean_response_format is idempotent on every input: applying it to its
\* own result returns that result.
C18_Idempotent == fpc = "twice" => twice = once

\* Where the command tokens of each line start
TokenStarts ==
    [l \in AllLines |-> {p \in 1..Len(l) : MatchFrom(cmd_pattern, 1, l, p, <<>>).ok}]
\* The first command token of each line that has one: its variable and its
\* literal (<<>> for a line without a token)
FirstTokens ==
    [l \in AllLines |->
        IF TokenStarts[l] = {} THEN <<>>
        ELSE LET p == CHOOSE x \in TokenStarts[l] : \A y \in TokenStarts[l] : x <= y
             IN  MatchFrom(cmd_pattern, 1, l, p, <<>>).groups]
FirstToken(l) == FirstTokens[l]
TokenLines == {k \in 0..(i - 1) : TokenStarts[Line(k)] # {}}
\* The line of the first match that gave the name of descriptor c
FirstLineOf(c) ==
    log[CHOOSE e \in 1..Len(log) :
          /\ log[e].desc.name = commands[c].name
          /\ \A x \in 1..Len(log) : log[x].desc.name = commands[c].name => e <= x].line

\* C19: a line contributes at most one descriptor: of the command tokens of a
\* line only the first is considered, there are never more descriptors than
\* lines with a command token, and the descriptors are in increasing order of
\* the line of their first occurrence.
C19_OnePerLine ==
    /\ \A e \in 1..Len(log) :
          /\ TokenStarts[Line(log[e].line)] # {}
          /\ log[e].var = FirstToken(Line(log[e].line))[1]
          /\ log[e].str = FirstToken(Line(log[e].line))[2]
          /\ \A x \in 1..(e - 1) : log[x].line < log[e].line
    /\ Len(commands) <= Cardinality(TokenLines)
    /\ \A c \in 1..Len(commands) : \E e \in 1..Len(log) : log[e].desc.name = commands[c].name
    /\ \A c, d \in 1..Len(commands) : c < d => FirstLineOf(c) < FirstLineOf(d)

\* A line with two command tokens gave one descriptor, a later line another,
\* and a line repeated a name: fewer descriptors than lines with a token
C19_Witness ==
    /\ pc = "done"
    /\ Len(commands) = 2
    /\ Cardinality(TokenLines) = 3
    /\ Cardinality(TokenStarts[Line(FirstLineOf(1))]) = 2
    /\ FirstLineOf(2) > FirstLineOf(1)

\* c may stand before d in a list sorted by (category, name)
InOrder(c, d) ==
    \/ StrLess(c.category, d.category)
    \/ c.category = d.category /\ ~StrLess(d.name, c.name)
Elements(q) == {q[k] : k \in 1..Len(q)}
\* The descriptors of q whose category is cat, in the order of q
OfCategory(q, cat) ==
    LET Is(c) == c.category = cat
    IN  SelectSeq(q, Is)

\* C16: in the document of generate_registry, commands holds the given
\* descriptors sorted by (category, name); commands_by_category has one list
\* per category, holding the descriptors of that category in the order of
\* commands; categories holds each category of a descriptor once; and
\* total_commands is the number of descriptors.
C16_RegistryShape ==
    mpc \in {"registry", "json", "ts", "exit"} =>
        /\ Len(registry.commands) = Len(parsed)
        /\ Elements(registry.commands) = Elements(parsed)
        /\ \A a, b \in 1..Len(registry.commands) :
              a < b => InOrder(registry.commands[a], registry.commands[b])
        /\ DOMAIN registry.commands_by_category
              = {c.category : c \in Elements(parsed)}
        /\ \A cat \in DOMAIN registry.commands_by_category :
              registry.commands_by_category[cat] = OfCategory(registry.commands, cat)
        /\ Elements(registry.categories) = {c.category : c \in Elements(parsed)}
        /\ \A a, b \in 1..Len(registry.categories) :
              a # b => registry.categories[a] # registry.categories[b]
        /\ registry.total_commands = Len(parsed)
        /\ commands = registry.commands

\* Three descriptors given out of order, two of them of one category
C16_Witness ==
    /\ mpc = "exit"
    /\ Len(parsed) = 3
    /\ StrLess(parsed[3].category, parsed[1].category)
    /\ parsed[2].category = parsed[3].category
    /\ StrLess(parsed[3].name, parsed[2].name)
    /\ Len(registry.categories) = 2

RECURSIVE LastOf(_, _, _)
\* The last position <= p of s that holds character c, 0 when there is none
LastOf(s, c, p) == IF p = 0 \/ Char(s, p) = c THEN p ELSE LastOf(s, c, p - 1)
\* A path without the extension of its file name
Stem(path) ==
    LET dot == LastOf(path, ".", Len(path))
    IN  IF dot > LastOf(path, "/", Len(path)) + 1 THEN SubSeq(path, 1, dot - 1) ELSE path

\* C17: with --typescript the listing goes to the sibling of --output with the
\* same base name and the extension .ts, a path other than --output, and the
\* file at --output still holds the JSON registry afterwards.
C17_SiblingTs ==
    mpc \in {"ts", "exit"} /\ typescript =>
        /\ ts_output = Stem(output) \o ".ts"
        /\ ts_output # output
        /\ files[output] = JsonDocument(registry)

\* The path names a file: an argument was given and the file is there (the
\* script neither creates nor removes the file, so this is as at the start)
PathExists == has_arg /\ disk.some

\* C12: running the patch script twice on a file is idempotent: the second run
\* leaves the content the first run left, changes nothing and reports that no
\* changes were needed.
C12_SecondRunNoop ==
    Len(runs) >= 2 /\ runs[1].existed =>
        /\ runs[2].disk = runs[1].disk
        /\ runs[2].edits = <<>>
        /\ runs[2].outcome = "no_changes"

\* C13: the exit status is 0 when the path exists, after a patch and after a
\* run without changes alike, and 1 when it does not exist or no argument was
\* given; in these cases nothing is written and no file is created.
C13_ExitStatus ==
    /\ ppc = "exit" =>
          /\ exit_status = IF PathExists THEN 0 ELSE 1
          /\ PathExists => outcome \in {"patched", "no_changes"}
          /\ ~PathExists => outcome \in {"usage", "not_found"}
    /\ ~PathExists => disk = None /\ writes = 0
    /\ \A r \in 1..Len(runs) : runs[r].exit_status = IF PathExists THEN 0 ELSE 1

\* Two runs on an existing file, one that patched and one without changes,
\* both with status 0
C13_Witness ==
    /\ ppc = "exit"
    /\ Len(runs) = 2
    /\ runs[1].outcome = "patched" /\ runs[1].exit_status = 0
    /\ runs[2].outcome = "no_changes" /\ exit_status = 0

\* C14: the file is written exactly when the content after the nine edits
\* differs from the content read; a run whose edits changed nothing leaves
\* the file and the number of writes as they were.
C14_WriteOnlyIfChanged ==
    /\ writes = Cardinality({r \in 1..Len(runs) : runs[r].wrote})
    /\ \A r \in 1..Len(runs) :
          runs[r].existed /\ ~runs[r].wrote => runs[r].disk = Some(runs[r].original)
    /\ ppc = "exit" /\ PathExists =>
          /\ runs[Len(runs)].wrote <=> content # original
          /\ runs[Len(runs)].wrote => disk = Some(content)

\* A run in which no edit changed the text, after a run that wrote: one write
C14_Witness ==
    /\ ppc = "exit"
    /\ Len(runs) = 2
    /\ runs[1].wrote
    /\ content = original /\ ~runs[2].wrote
    /\ writes = 1

\* C15: the names patch_file reports are the patches whose edit changed the
\* text in that run, and no name is recorded in a run that reports that no
\* changes were needed.
C15_NamesAreEdits ==
    \A r \in 1..Len(runs) :
        /\ runs[r].outcome = "patched" => runs[r].applied = runs[r].edits
        /\ runs[r].outcome = "no_changes" => runs[r].applied = <<>>

\* None of the texts the patches add is in the file
Pristine(f) ==
    /\ ~Contains(f, "import subprocess")
    /\ ~Contains(f, "_tempradio_task")
    /\ ~Contains(f, "command == \"board\"")
    /\ ~Contains(f, "_cmd_stats_packets")
Edited(r, name) == \E k \in 1..Len(runs[r].edits) : runs[r].edits[k] = name

\* C20: after a run on a file without any of the enhancements the text is
\* self-consistent: where the routing edits put calls to the stats methods
\* or to _cmd_board the definitions of these methods are there too, and where
\* the new _cmd_reboot or _cmd_tempradio body was put `import subprocess` is.
C20_SelfConsistent ==
    ppc = "exit" /\ Len(runs) = 1 /\ runs[1].existed /\ Pristine(runs[1].original) =>
        /\ Edited(1, "stats_routing") =>
              /\ Contains(disk.val, "def _cmd_stats_packets(self)")
              /\ Contains(disk.val, "def _cmd_stats_radio(self)")
              /\ Contains(disk.val, "def _cmd_stats_core(self)")
        /\ Edited(1, "board_routing") => Contains(disk.val, "def _cmd_board(self)")
        /\ Edited(1, "reboot") \/ Edited(1, "tempradio") =>
              Contains(disk.val, "import subprocess")

====
